---- MODULE Spec2Model ----
(***************************************************************************)
(* Model of app.js: an express server over a sqlite3 store with two       *)
(* read-only routes (/crops, /dashboard) and a SIGINT handler.  Every      *)
(* db.all / db.close call is split into the call (part of the action that  *)
(* makes it) and its callback (an action of its own, fired by the event    *)
(* loop), so that requests interleave exactly where node lets them.        *)
(***************************************************************************)
EXTENDS Integers, Sequences, FiniteSets, TLC

\* ------------------------------------------------------------------ bounds
MaxListings == 3        \* rows of store_product in the query specification
NumReqs == 2            \* requests in flight together
MaxSignals == 2         \* SIGINT deliveries

Reqs == 1..NumReqs

\* ------------------------------------------------------- the store's content
Products == {"wheat", "rice"}
Prices == {10, 20}
\* app_userprofile: ids are the primary key.  Farmer 4 has no profile.  The
\* states are listed in StateOrder in ascending (binary collation) order.
StateOrder == <<"North", "South">>
Profiles ==
    { [id |-> 1, state |-> "South"],
      [id |-> 2, state |-> "North"],
      [id |-> 3, state |-> "North"] }
FarmerIds == {1, 2, 3, 4}

Listings == [product_name : Products, price : Prices, farmerID : FarmerIds]

RECURSIVE SeqsUpTo(_, _)
SeqsUpTo(S, n) ==
    IF n = 0 THEN {<<>>}
    ELSE LET shorter == SeqsUpTo(S, n - 1)
         IN  shorter \cup {Append(s, x) : s \in {t \in shorter : Len(t) = n - 1}, x \in S}

\* req.query.crop: <<>> when the parameter is absent, <<s>> when it is the
\* string s.
CropParams == {<<>>, <<"">>, <<"wheat">>, <<"maize">>}

VARIABLES
    store_product,    \* the listings table, in rowid order
    app_userprofile,  \* the seller table
    dbState,          \* the handle: "opening", "open" or "failed"
    listening,        \* the HTTP server accepts requests
    proc,             \* "running" or "exited"
    exitCode,         \* <<>> while running, <<code>> once exited
    closeRequests,    \* db.close calls made
    closeCallbacks,   \* db.close callbacks fired
    pc,               \* per request: "idle", "crops", "debug", "aggregate", "done"
    route,            \* per request: "none", "/crops" or "/dashboard"
    crop,             \* per request: req.query.crop
    issued,           \* per request: the queries it handed to db.all, in order
    results,          \* per request: the outcome of each callback, in order
    rawRows,          \* per request: what the diagnostic query logged
    sent              \* per request: the responses written, in order

storeVars == <<store_product, app_userprofile>>
lifeVars == <<dbState, listening, proc, exitCode, closeRequests, closeCallbacks>>
reqVars == <<pc, route, crop, issued, results, rawRows, sent>>
vars == <<store_product, app_userprofile, dbState, listening, proc, exitCode,
          closeRequests, closeCallbacks, pc, route, crop, issued, results,
          rawRows, sent>>

\* --------------------------------------------------------------- the queries
\* ORDER BY up.state compares the text of the state.
StateRank(s) == CHOOSE i \in 1..Len(StateOrder) : StateOrder[i] = s

\* The element of a singleton set; { f(x) : x \in {e} } evaluates e once.
Only(S) == CHOOSE x \in S : TRUE

\* The k-th smallest member of a set of row numbers.
Nth(S, k) == CHOOSE i \in S : Cardinality({j \in S : j < i}) = k - 1

\* FROM store_product sp JOIN app_userprofile up ON sp.farmerID = up.id
\* WHERE sp.product_name = ?   -- an inner join: a listing whose farmerID
\* matches no profile yields no row.  c is the bound parameter, req.query.crop:
\* an absent value equals no product name.
JoinRows(sp, up, c) ==
    LET Matches(l) == <<l.product_name>> = c /\ \E p \in up : p.id = l.farmerID
        matched == SelectSeq(sp, Matches)
    IN  [k \in 1..Len(matched) |->
            [state |-> (CHOOSE p \in up : p.id = matched[k].farmerID).state,
             price |-> matched[k].price]]

\* The rows of s in ascending order of their keys (key[i] is the key of row
\* i), rows of equal key in their order in s (a stable sort): row i goes
\* behind the rows of smaller key and the earlier rows of equal key.
SortBy(s, key) ==
    LET Before(i) == {j \in 1..Len(s) :
                         key[j] < key[i] \/ (key[j] = key[i] /\ j < i)}
    IN  [k \in 1..Len(s) |->
            s[CHOOSE i \in 1..Len(s) : Cardinality(Before(i)) = k - 1]]

\* A slip in MIN: the first price of the group.
MinPriceFirst(ps) == ps[1]

\* MIN(sp.price), MAX(sp.price) over the prices of one group (never empty).
MinPrice(ps) ==
    LET F[i \in 1..Len(ps)] ==
            IF i = 1 THEN ps[1]
            ELSE IF ps[i] < F[i - 1] THEN ps[i] ELSE F[i - 1]
    IN  F[Len(ps)]

MaxPrice(ps) ==
    LET F[i \in 1..Len(ps)] ==
            IF i = 1 THEN ps[1]
            ELSE IF ps[i] > F[i - 1] THEN ps[i] ELSE F[i - 1]
    IN  F[Len(ps)]

\* The prices of the joined rows of one state, in row order.
PricesOf(rows, s) ==
    LET InState(row) == row.state = s
        own == SelectSeq(rows, InState)
    IN  [k \in 1..Len(own) |-> own[k].price]

\* The select list of the aggregate query over the group of state s.
GroupRow(rows, s) ==
    Only({ [state |-> s,
            min_price |-> MinPrice(ps),
            max_price |-> MaxPrice(ps),
            price_count |-> Len(ps),
            all_prices |-> ps] : ps \in {PricesOf(rows, s)} })

\* GROUP BY up.state: one row per state met, in the order the states are
\* first met.
GroupBy(rows) ==
    LET firsts == {i \in 1..Len(rows) :
                      \A j \in 1..(i - 1) : rows[j].state # rows[i].state}
    IN  [k \in 1..Cardinality(firsts) |-> GroupRow(rows, rows[Nth(firsts, k)].state)]

RowState(row) == StateRank(row.state)

\* The aggregate query without its ORDER BY clause.
OrderByDropped(groups) == groups

\* ORDER BY up.state
OrderBy(groups) ==
    SortBy(groups, [i \in 1..Len(groups) |-> RowState(groups[i])])

aggregateQuery(sp, up, c) ==
    Only({ OrderBy(groups) :
               groups \in { GroupBy(rows) : rows \in {JoinRows(sp, up, c)} } })

RowPrice(row) == row.price

\* ORDER BY up.state, sp.price
debugQuery(sp, up, c) ==
    Only({ SortBy(byPrice, [i \in 1..Len(byPrice) |-> RowState(byPrice[i])]) :
               byPrice \in { SortBy(rows, [i \in 1..Len(rows) |-> RowPrice(rows[i])]) :
                                 rows \in {JoinRows(sp, up, c)} } })

\* The crops query without DISTINCT.
DistinctDropped(names) == names

\* DISTINCT: each value once, in the order first met.
Distinct(names) ==
    LET firsts == {i \in 1..Len(names) : \A j \in 1..(i - 1) : names[j] # names[i]}
    IN  [k \in 1..Cardinality(firsts) |-> names[Nth(firsts, k)]]

\* SELECT DISTINCT product_name FROM store_product
cropsQuery(sp) ==
    Only({ [i \in 1..Len(names) |-> [product_name |-> names[i]]] :
               names \in { Distinct([i \in 1..Len(sp) |-> sp[i].product_name]) } })

\* The query has no ORDER BY: the store may hand the rows back in any order.
Reorderings(s) ==
    { [i \in 1..Len(s) |-> s[p[i]]] : p \in Permutations(1..Len(s)) }

\* ------------------------------------------------------------- the responses
\* A test for the absent parameter only (crop === undefined).
FalsyUndefinedOnly(c) == c = <<>>

\* !crop: undefined and the empty string are falsy.
Falsy(c) == c = <<>> \/ c = <<"">>

MissingCropResponse == [status |-> 400, body |-> [error |-> "Crop name is required"]]
CropsErrorResponse == [status |-> 500, body |-> [error |-> "Error fetching crops"]]
\* The diagnostic error branch without .status(500).
DebugErrorResponseNoStatus == [status |-> 200, body |-> [error |-> "Database error"]]

DebugErrorResponse == [status |-> 500, body |-> [error |-> "Database error"]]
AggregateErrorResponse ==
    [status |-> 500, body |-> [error |-> "Error fetching dashboard data"]]

\* res.json({ crops: rows.map(row => row.product_name) })
CropsResponse(rows) ==
    [status |-> 200,
     body |-> [crops |-> [i \in 1..Len(rows) |-> rows[i].product_name]]]

\* A handler that treats an empty result as "not found".
DashboardResponseNotFound(rows) ==
    IF Len(rows) = 0
    THEN [status |-> 404, body |-> [error |-> "No data found"]]
    ELSE [status |-> 200,
          body |-> [i \in 1..Len(rows) |->
                       [state |-> rows[i].state,
                        min_price |-> rows[i].min_price,
                        max_price |-> rows[i].max_price,
                        price_count |-> rows[i].price_count]]]

\* res.json(rows.map(row => ({state, min_price, max_price, price_count})))
DashboardResponse(rows) ==
    [status |-> 200,
     body |-> [i \in 1..Len(rows) |->
                  [state |-> rows[i].state,
                   min_price |-> rows[i].min_price,
                   max_price |-> rows[i].max_price,
                   price_count |-> rows[i].price_count]]]

\* --------------------------------------------------------------- the store
\* A query handed to the handle is held back while the handle is opening.  Its
\* callback carries rows only from an open handle; it can carry an error from
\* any handle.
CallbackMayFire(err) ==
    /\ proc = "running"
    /\ dbState # "opening"
    /\ (err \/ dbState = "open")

\* ------------------------------------------------------------------- startup
\* The state when initializeApp() has returned: the handle is being opened,
\* the routes are registered, the server listens, the SIGINT handler is set.
InitServer ==
    /\ dbState = "opening"
    /\ listening = TRUE
    /\ proc = "running"
    /\ exitCode = <<>>
    /\ closeRequests = 0
    /\ closeCallbacks = 0
    /\ pc = [r \in Reqs |-> "idle"]
    /\ route = [r \in Reqs |-> "none"]
    /\ crop = [r \in Reqs |-> <<>>]
    /\ issued = [r \in Reqs |-> <<>>]
    /\ results = [r \in Reqs |-> <<>>]
    /\ rawRows = [r \in Reqs |-> <<>>]
    /\ sent = [r \in Reqs |-> <<>>]

\* The callback of new sqlite3.Database: it only logs.
OpenCallback(err) ==
    /\ proc = "running"
    /\ dbState = "opening"
    /\ dbState' = IF err THEN "failed" ELSE "open"
    /\ UNCHANGED <<listening, proc, exitCode, closeRequests, closeCallbacks>>
    /\ UNCHANGED <<storeVars, reqVars>>

\* ------------------------------------------------------------------ /crops
getCrops(r) ==
    /\ proc = "running" /\ listening
    /\ pc[r] = "idle"
    /\ route' = [route EXCEPT ![r] = "/crops"]
    /\ issued' = [issued EXCEPT ![r] = Append(@, "crops")]
    /\ pc' = [pc EXCEPT ![r] = "crops"]
    /\ UNCHANGED <<crop, results, rawRows, sent>>
    /\ UNCHANGED <<storeVars, lifeVars>>

getCropsCallback(r, err) ==
    /\ pc[r] = "crops"
    /\ CallbackMayFire(err)
    /\ results' = [results EXCEPT ![r] = Append(@, IF err THEN "err" ELSE "ok")]
    /\ IF err
       THEN sent' = [sent EXCEPT ![r] = Append(@, CropsErrorResponse)]
       ELSE \E rows \in Reorderings(cropsQuery(store_product)) :
                sent' = [sent EXCEPT ![r] = Append(@, CropsResponse(rows))]
    /\ pc' = [pc EXCEPT ![r] = "done"]
    /\ UNCHANGED <<route, crop, issued, rawRows>>
    /\ UNCHANGED <<storeVars, lifeVars>>

\* --------------------------------------------------------------- /dashboard
\* The handler without the return in front of res.status(400): it answers and
\* goes on to query.
getDashboardNoReturn(r, c) ==
    /\ proc = "running" /\ listening
    /\ pc[r] = "idle"
    /\ route' = [route EXCEPT ![r] = "/dashboard"]
    /\ crop' = [crop EXCEPT ![r] = c]
    /\ sent' = [sent EXCEPT ![r] = IF Falsy(c) THEN Append(@, MissingCropResponse) ELSE @]
    /\ issued' = [issued EXCEPT ![r] = Append(@, "debug")]
    /\ pc' = [pc EXCEPT ![r] = "debug"]
    /\ UNCHANGED <<results, rawRows>>
    /\ UNCHANGED <<storeVars, lifeVars>>

getDashboard(r, c) ==
    /\ proc = "running" /\ listening
    /\ pc[r] = "idle"
    /\ route' = [route EXCEPT ![r] = "/dashboard"]
    /\ crop' = [crop EXCEPT ![r] = c]
    /\ IF Falsy(c)
       THEN /\ sent' = [sent EXCEPT ![r] = Append(@, MissingCropResponse)]
            /\ pc' = [pc EXCEPT ![r] = "done"]
            /\ UNCHANGED issued
       ELSE /\ issued' = [issued EXCEPT ![r] = Append(@, "debug")]
            /\ pc' = [pc EXCEPT ![r] = "debug"]
            /\ UNCHANGED sent
    /\ UNCHANGED <<results, rawRows>>
    /\ UNCHANGED <<storeVars, lifeVars>>

\* The diagnostic callback without the return in its error branch: it answers
\* and goes on to the aggregate query.
debugCallbackNoReturn(r, err) ==
    /\ pc[r] = "debug"
    /\ CallbackMayFire(err)
    /\ results' = [results EXCEPT ![r] = Append(@, IF err THEN "err" ELSE "ok")]
    /\ sent' = [sent EXCEPT ![r] = IF err THEN Append(@, DebugErrorResponse) ELSE @]
    /\ IF err
       THEN UNCHANGED rawRows
       ELSE \E rows \in {debugQuery(store_product, app_userprofile, crop[r])} :
                rawRows' = [rawRows EXCEPT ![r] = rows]
    /\ issued' = [issued EXCEPT ![r] = Append(@, "aggregate")]
    /\ pc' = [pc EXCEPT ![r] = "aggregate"]
    /\ UNCHANGED <<route, crop>>
    /\ UNCHANGED <<storeVars, lifeVars>>

debugCallback(r, err) ==
    /\ pc[r] = "debug"
    /\ CallbackMayFire(err)
    /\ results' = [results EXCEPT ![r] = Append(@, IF err THEN "err" ELSE "ok")]
    /\ IF err
       THEN /\ sent' = [sent EXCEPT ![r] = Append(@, DebugErrorResponse)]
            /\ pc' = [pc EXCEPT ![r] = "done"]
            /\ UNCHANGED <<issued, rawRows>>
       ELSE /\ \E rows \in {debugQuery(store_product, app_userprofile, crop[r])} :
                   rawRows' = [rawRows EXCEPT ![r] = rows]
            /\ issued' = [issued EXCEPT ![r] = Append(@, "aggregate")]
            /\ pc' = [pc EXCEPT ![r] = "aggregate"]
            /\ UNCHANGED sent
    /\ UNCHANGED <<route, crop>>
    /\ UNCHANGED <<storeVars, lifeVars>>

aggregateCallback(r, err) ==
    /\ pc[r] = "aggregate"
    /\ CallbackMayFire(err)
    /\ results' = [results EXCEPT ![r] = Append(@, IF err THEN "err" ELSE "ok")]
    /\ IF err
       THEN sent' = [sent EXCEPT ![r] = Append(@, AggregateErrorResponse)]
       ELSE \E rows \in {aggregateQuery(store_product, app_userprofile, crop[r])} :
                sent' = [sent EXCEPT ![r] = Append(@, DashboardResponse(rows))]
    /\ pc' = [pc EXCEPT ![r] = "done"]
    /\ UNCHANGED <<route, crop, issued, rawRows>>
    /\ UNCHANGED <<storeVars, lifeVars>>

\* ----------------------------------------------------------------- shutdown
\* process.on('SIGINT', ...): every delivery calls db.close.
sigint ==
    /\ proc = "running"
    /\ closeRequests < MaxSignals
    /\ closeRequests' = closeRequests + 1
    /\ UNCHANGED <<dbState, listening, proc, exitCode, closeCallbacks>>
    /\ UNCHANGED <<storeVars, reqVars>>

\* The callback of db.close: logs, then process.exit(0) whatever err is.
closeCallback(err) ==
    /\ proc = "running"
    /\ dbState # "opening"
    /\ closeCallbacks < closeRequests
    /\ closeCallbacks' = closeCallbacks + 1
    /\ proc' = "exited"
    /\ exitCode' = <<0>>
    /\ listening' = FALSE
    /\ UNCHANGED <<dbState, closeRequests>>
    /\ UNCHANGED <<storeVars, reqVars>>

\* ----------------------------------------------------------- specifications
\* The store the server runs over: empty, or holding listings of two crops
\* from sellers of two states and from a seller without a profile.
SeedStore ==
    << [product_name |-> "wheat", price |-> 10, farmerID |-> 2],
       [product_name |-> "wheat", price |-> 15, farmerID |-> 1],
       [product_name |-> "rice",  price |-> 30, farmerID |-> 4],
       [product_name |-> "wheat", price |-> 20, farmerID |-> 3] >>

Init ==
    /\ store_product \in {<<>>, SeedStore}
    /\ app_userprofile = Profiles
    /\ InitServer

Requests(r) ==
    \/ getCrops(r)
    \/ \E c \in CropParams : getDashboard(r, c)
    \/ \E err \in BOOLEAN : getCropsCallback(r, err)
    \/ \E err \in BOOLEAN : debugCallback(r, err)
    \/ \E err \in BOOLEAN : aggregateCallback(r, err)

Next ==
    \/ \E err \in BOOLEAN : OpenCallback(err)
    \/ \E r \in Reqs : Requests(r)
    \/ sigint
    \/ \E err \in BOOLEAN : closeCallback(err)

Spec == Init /\ [][Next]_vars

\* The event loop runs every callback that is due: the open callback, and the
\* callback of every query handed to the handle.
Callbacks(r) ==
    \/ \E err \in BOOLEAN : getCropsCallback(r, err)
    \/ \E err \in BOOLEAN : debugCallback(r, err)
    \/ \E err \in BOOLEAN : aggregateCallback(r, err)

LiveSpec ==
    /\ Init
    /\ [][Next]_vars
    /\ WF_vars(\E err \in BOOLEAN : OpenCallback(err))
    /\ \A r \in Reqs : WF_vars(Callbacks(r))

\* One request at a time against every store of up to MaxListings listings,
\* over an open handle and with no shutdown: the queries as functions of the
\* store and the crop.
QueryInit ==
    /\ store_product \in SeqsUpTo(Listings, MaxListings)
    /\ app_userprofile = Profiles
    /\ InitServer

QueryNext ==
    \/ \E err \in BOOLEAN : OpenCallback(err)
    \/ Requests(1)

QuerySpec == QueryInit /\ [][QueryNext]_vars

\* ==================================================================== claims
Answered(r) == Len(sent[r]) > 0
Dashboard200(r) ==
    route[r] = "/dashboard" /\ Answered(r) /\ sent[r][1].status = 200

\* The listings (by row number) a crop name selects: the name matches and the
\* seller resolves; and the region such a listing belongs to.
MatchingListings(name) ==
    { i \in 1..Len(store_product) :
        /\ store_product[i].product_name = name
        /\ \E p \in app_userprofile : p.id = store_product[i].farmerID }
RegionOf(i) ==
    (CHOOSE p \in app_userprofile : p.id = store_product[i].farmerID).state
RegionListings(name, region) ==
    { i \in MatchingListings(name) : RegionOf(i) = region }

\* C1: a successful /dashboard?crop=X has exactly one entry per region that
\* has a listing named X with a resolving seller; the entry's price_count is
\* the number of those listings, min_price their smallest price, max_price
\* their largest, and min_price <= max_price.
C1_RegionAggregates ==
    \A r \in Reqs :
        Dashboard200(r) =>
            LET body == sent[r][1].body
                name == crop[r][1]
                regions == { RegionOf(i) : i \in MatchingListings(name) }
            IN  /\ Len(body) = Cardinality(regions)
                /\ { body[k].state : k \in 1..Len(body) } = regions
                /\ \A k \in 1..Len(body) :
                       LET ls == RegionListings(name, body[k].state)
                       IN  /\ body[k].price_count = Cardinality(ls)
                           /\ \E i \in ls : store_product[i].price = body[k].min_price
                           /\ \A i \in ls : body[k].min_price <= store_product[i].price
                           /\ \E i \in ls : store_product[i].price = body[k].max_price
                           /\ \A i \in ls : store_product[i].price <= body[k].max_price
                           /\ body[k].min_price <= body[k].max_price

\* Two regions answered, one of them with two listings of different prices that
\* arrive dearest first, while a listing of the crop from a seller without a
\* profile is in the table.
C1_Witness ==
    /\ Dashboard200(1)
    /\ \E k \in 1..Len(sent[1][1].body) :
           /\ sent[1][1].body[k].price_count = 2
           /\ sent[1][1].body[k].min_price < sent[1][1].body[k].max_price
    /\ \E i \in 1..Len(store_product) :
           /\ store_product[i].product_name = crop[1][1]
           /\ store_product[i].farmerID = 4
    /\ \E i, j \in MatchingListings(crop[1][1]) :
           i < j /\ RegionOf(i) = RegionOf(j)
                 /\ store_product[i].price > store_product[j].price

\* C2: /dashboard with an absent or empty crop is answered 400 with
\* {error: 'Crop name is required'} and hands no query to the store.
C2_MissingCrop ==
    \A r \in Reqs :
        (route[r] = "/dashboard" /\ (crop[r] = <<>> \/ crop[r] = <<"">>)) =>
            /\ sent[r] = << [status |-> 400,
                             body |-> [error |-> "Crop name is required"]] >>
            /\ issued[r] = <<>>
            /\ results[r] = <<>>

C2_Witness ==
    /\ route[1] = "/dashboard" /\ crop[1] = <<"">> /\ pc[1] = "done"
    /\ route[2] = "/dashboard" /\ crop[2] = <<>> /\ pc[2] = "done"
    /\ dbState = "open"

QueryFailed(r) == \E i \in 1..Len(results[r]) : results[r][i] = "err"

\* C3 as stated: for /dashboard with a non-empty crop, a storage failure in
\* whichever query is answered 500 with {error: 'Error fetching dashboard
\* data'}.
C3_AsStated ==
    \A r \in Reqs :
        (route[r] = "/dashboard" /\ QueryFailed(r)) =>
            sent[r] = << [status |-> 500,
                          body |-> [error |-> "Error fetching dashboard data"]] >>

\* C3 as amended: a storage failure is answered 500; the body is {error:
\* 'Database error'} when the diagnostic query failed and {error: 'Error
\* fetching dashboard data'} when the aggregate query failed.
C3_ErrorBodies ==
    \A r \in Reqs :
        (route[r] = "/dashboard" /\ QueryFailed(r)) =>
            /\ results[r] = <<"err">> =>
                   sent[r] = << [status |-> 500,
                                 body |-> [error |-> "Database error"]] >>
            /\ results[r] = <<"ok", "err">> =>
                   sent[r] = << [status |-> 500,
                                 body |-> [error |-> "Error fetching dashboard data"]] >>
            /\ results[r] \in {<<"err">>, <<"ok", "err">>}

C3_Witness ==
    /\ route[1] = "/dashboard" /\ results[1] = <<"err">> /\ Answered(1)
    /\ route[2] = "/dashboard" /\ results[2] = <<"ok", "err">> /\ Answered(2)

\* C4: a successful /crops holds every product name of the listings table
\* exactly once and no other name; a failed one is answered 500 with {error:
\* 'Error fetching crops'}.
C4_DistinctCrops ==
    \A r \in Reqs :
        (route[r] = "/crops" /\ pc[r] = "done") =>
            /\ Len(sent[r]) = 1
            /\ IF results[r] = <<"err">>
               THEN sent[r][1] = [status |-> 500,
                                  body |-> [error |-> "Error fetching crops"]]
               ELSE LET crops == sent[r][1].body.crops
                    IN  /\ sent[r][1].status = 200
                        /\ { crops[k] : k \in 1..Len(crops) } =
                               { store_product[i].product_name :
                                     i \in 1..Len(store_product) }
                        /\ \A j, k \in 1..Len(crops) : crops[j] = crops[k] => j = k

\* Three listings, two of them of one crop, answered with two names.
C4_Witness ==
    /\ route[1] = "/crops" /\ pc[1] = "done" /\ results[1] = <<"ok">>
    /\ Len(store_product) = 3
    /\ Len(sent[1][1].body.crops) = 2

\* C5: the entries of a successful /dashboard are in ascending order of region
\* name, no region twice.
C5_OrderedRegions ==
    \A r \in Reqs :
        Dashboard200(r) =>
            LET body == sent[r][1].body
            IN  \A j, k \in 1..Len(body) :
                    j < k => StateRank(body[j].state) < StateRank(body[k].state)

\* Two regions answered from a table that meets the later region first.
C5_Witness ==
    /\ Dashboard200(1)
    /\ Len(sent[1][1].body) = 2
    /\ \E i, j \in MatchingListings(crop[1][1]) :
           i < j /\ StateRank(RegionOf(i)) > StateRank(RegionOf(j))

NoListingNamed(c) ==
    \A i \in 1..Len(store_product) : <<store_product[i].product_name>> # c

\* C6: /dashboard with a non-empty crop that names no listing, both queries
\* succeeding, is answered 200 with the empty list.
C6_NoMatchIsEmpty ==
    \A r \in Reqs :
        (/\ route[r] = "/dashboard"
         /\ results[r] = <<"ok", "ok">>
         /\ NoListingNamed(crop[r])) =>
            /\ Len(sent[r]) = 1
            /\ sent[r][1].status = 200
            /\ Len(sent[r][1].body) = 0

C6_Witness ==
    /\ route[1] = "/dashboard" /\ crop[1] = <<"maize">>
    /\ results[1] = <<"ok", "ok">>
    /\ Len(store_product) = MaxListings
    /\ Answered(1)

\* C7 as stated: the process exits with code 0 and only after a close
\* callback has fired, the close having been requested before; and the
\* shutdown sequence runs once: db.close is requested at most once however
\* often the signal is delivered.
C7_ShutdownOnce ==
    /\ proc = "exited" => (exitCode = <<0>> /\ closeCallbacks = 1)
    /\ closeCallbacks <= closeRequests
    /\ closeRequests <= 1

\* C9: within one /dashboard request the aggregate query is handed to the
\* store only after the diagnostic query succeeded; a failed diagnostic query
\* ends the request with a 500 and no aggregate query; a successful one
\* answers nothing by itself, and the answer is the aggregate query's: 500 on
\* its error, 200 with its rows otherwise.
C9_DiagnosticThenAggregate ==
    \A r \in Reqs :
        route[r] = "/dashboard" =>
            /\ (\E i \in 1..Len(issued[r]) : issued[r][i] = "aggregate") =>
                   (issued[r] = <<"debug", "aggregate">>
                        /\ Len(results[r]) >= 1 /\ results[r][1] = "ok")
            /\ results[r] = <<"err">> =>
                   (issued[r] = <<"debug">> /\ pc[r] = "done"
                        /\ Len(sent[r]) = 1 /\ sent[r][1].status = 500)
            /\ results[r] = <<"ok">> => (sent[r] = <<>> /\ pc[r] = "aggregate")
            /\ results[r] = <<"ok", "err">> =>
                   sent[r] = << [status |-> 500,
                                 body |-> [error |-> "Error fetching dashboard data"]] >>
            /\ results[r] = <<"ok", "ok">> =>
                   sent[r] = << DashboardResponse(
                                    aggregateQuery(store_product, app_userprofile,
                                                   crop[r])) >>

\* The diagnostic query logged rows and the aggregate query then failed, while
\* another request's diagnostic query failed.
C9_Witness ==
    /\ route[1] = "/dashboard" /\ results[1] = <<"ok", "err">>
    /\ Len(rawRows[1]) > 0 /\ Answered(1)
    /\ route[2] = "/dashboard" /\ results[2] = <<"err">> /\ Answered(2)

\* What a request may be answered with, from its own route, crop and callback
\* outcomes and the store alone.
OwnAnswers(r) ==
    IF route[r] = "/crops"
    THEN IF results[r] = <<"err">>
         THEN { CropsErrorResponse }
         ELSE { CropsResponse(rows) : rows \in Reorderings(cropsQuery(store_product)) }
    ELSE IF Falsy(crop[r]) THEN { MissingCropResponse }
    ELSE IF results[r] = <<"err">> THEN { DebugErrorResponse }
    ELSE IF results[r] = <<"ok", "err">> THEN { AggregateErrorResponse }
    ELSE { DashboardResponse(aggregateQuery(store_product, app_userprofile, crop[r])) }

C10_AtMostOnce ==
    \A r \in Reqs :
        /\ Len(sent[r]) <= 1
        /\ Answered(r) => sent[r][1] \in OwnAnswers(r)

\* C10: under every interleaving each request is answered at most once, with
\* an answer computed from its own crop and the store; and if every callback
\* fires and no SIGINT arrives, each request is answered exactly once.
C10_OneResponseEach ==
    /\ []C10_AtMostOnce
    /\ \A r \in Reqs :
           (pc[r] # "idle") ~> ((Len(sent[r]) = 1 /\ pc[r] = "done") \/ closeRequests > 0)

\* Request 1 is answered for one crop while request 2, for another crop, still
\* waits for its aggregate query, and no signal has arrived.
C10_Witness ==
    /\ Dashboard200(1) /\ crop[1] = <<"wheat">> /\ Len(sent[1][1].body) = 2
    /\ route[2] = "/dashboard" /\ crop[2] = <<"maize">> /\ pc[2] = "aggregate"
    /\ closeRequests = 0

====
